---- MODULE Spec2Model ----
(***************************************************************************)
(* A state-machine model of pywincert (src/pywincert/pywincert.py).        *)
(*                                                                         *)
(* One behaviour is one call of one public function of the module.  The    *)
(* external tools (registry, makecert, certutil, cert2spc, pvk2pfx,        *)
(* signtool, the WScript.Shell window manager) are the environment: what   *)
(* they answer is drawn from small sets.  Durations are in tenths of a     *)
(* second (time.sleep(0.5) is 5, time.sleep(0.2) is 2).                    *)
(***************************************************************************)
EXTENDS Integers, Sequences, FiniteSets, TLC

VARIABLES
    op,             \* the public function this behaviour calls
    password,       \* the *password* argument
    now,            \* make_ca: what datetime.datetime.now() returns
    valid_hours,    \* make_ca: the *valid_hours* argument
    fs,             \* the files and directories that exist
    signtool_rc,    \* environment: signtool's exit code for each endpoint
    sign_pc,        \* sign_code: position
    sign_i,         \* sign_code: index of the next timestamp url
    sign_calls,     \* sign_code: the signtool invocations made so far
    sign_log,       \* sign_code: the LOG records written so far
    pr_pc,          \* run_makecert_*: position
    pr_variant,     \* run_makecert_*: "authority" or "enduser"
    pr_n,           \* run_makecert_*: iterations of the wait loop completed
    pr_k,           \* run_makecert_*: index of the next statement after the wait
    pr_trace,       \* run_makecert_*: the calls made on shell and time so far
    ca_pc,          \* make_ca: position
    ca_cmd,         \* make_ca: the begin and end date put into cmd
    ca_j,           \* make_ca: index of the next file to confirm
    ca_checks,      \* make_ca: the os.path.isfile results so far
    ca_err,         \* make_ca: the file the RuntimeError names
    ca_calls,       \* make_ca: the certutil invocations made so far
    pfx_pc,         \* make_pfx: position
    pfx_j,          \* make_pfx: index of the next file to confirm
    pfx_err,        \* make_pfx: the exception pending or raised
    pfx_calls,      \* make_pfx: the cert2spc and pvk2pfx invocations so far
    pfx_tmpd,       \* make_pfx: whether tempfile.mkdtemp() was called
    rca_pc,         \* remove_ca: position
    rm_pc,          \* remove_cert_fromstore: position
    rm_store,       \* remove_cert_fromstore: the *store* argument
    rm_output,      \* remove_cert_fromstore: certutil -store's output
    rm_snums,       \* remove_cert_fromstore: snums
    rm_k,           \* remove_cert_fromstore: index of the next snum to delete
    rm_calls,       \* remove_cert_fromstore: the certutil invocations so far
    is_pc,          \* is_signed: position
    is_calls,       \* is_signed: the signtool verify invocations made so far
    is_ret          \* is_signed: the value returned

inputVars == <<op, password, now, valid_hours>>
signVars == <<signtool_rc, sign_pc, sign_i, sign_calls, sign_log>>
prVars == <<pr_pc, pr_variant, pr_n, pr_k, pr_trace>>
caVars == <<ca_pc, ca_cmd, ca_j, ca_checks, ca_err, ca_calls>>
pfxVars == <<pfx_pc, pfx_j, pfx_err, pfx_calls, pfx_tmpd>>
rmVars == <<rca_pc, rm_pc, rm_store, rm_output, rm_snums, rm_k, rm_calls>>
isVars == <<is_pc, is_calls, is_ret>>
vars == <<inputVars, fs, signVars, prVars, caVars, pfxVars, rmVars, isVars>>

----------------------------------------------------------------------------
(* Bounds and inputs *)

\* Exit codes the external tools may return are 0..MaxExitCode.
MaxExitCode == 3
ExitCodes == 0..MaxExitCode

Passwords == {"s3cret", "hunter2"}

\* The public functions, and the two popup responders called on their own.
Ops ==
    {"make_ca", "make_pfx", "remove_cert_fromstore", "remove_ca", "sign_code",
     "is_signed", "run_makecert_authority", "run_makecert_enduser"}

\* What datetime.datetime.now() may return: a date and an hour of the day.
NowDates ==
    { [year |-> 2017, month |-> 12, day |-> 31],
      [year |-> 2016, month |-> 3, day |-> 1],
      [year |-> 2017, month |-> 1, day |-> 1] }
NowHours == {0, 23}
Nows == { [date |-> d, hour |-> h] : d \in NowDates, h \in NowHours }
NoNow == [date |-> [year |-> 2017, month |-> 1, day |-> 1], hour |-> 0]

\* The valid_hours the caller may pass; 24 is the default.
ValidHours == {0, 2, 24, 47}

----------------------------------------------------------------------------
(* get_winsdk_path: the registry entry is there, or RuntimeError *)

\* The outcomes of get_winsdk_path(): TRUE is a path, FALSE the RuntimeError
\* 'missing windows sdk registry entry'.
get_winsdk_path == BOOLEAN

----------------------------------------------------------------------------
(* sign_code *)

timestamp_urls_three ==
    << "http://timestamp.comodoca.com/authenticode",
       "http://timestamp.verisign.com/scripts/timstamp.dll",
       "http://timestamp.globalsign.com/scripts/timestamp.dll" >>

timestamp_urls ==
    << "http://timestamp.comodoca.com/authenticode",
       "http://timestamp.verisign.com/scripts/timstamp.dll",
       "http://timestamp.globalsign.com/scripts/timestamp.dll",
       "http://tsa.starfieldtech.com" >>

\* What one iteration of the loop does after task.communicate(), by returncode.
sign_branch_falls_through(rc) == "return"

sign_branch(rc) == IF rc = 2 THEN "continue" ELSE "return"

\* The LOG records one iteration writes, by returncode.
sign_records(rc) ==
    IF rc = 2 THEN << "debug" >>
    ELSE IF rc # 0 THEN << "info", "error", "debug" >>
    ELSE << "debug" >>

SignEnter ==
    /\ op = "sign_code"
    /\ sign_pc = "idle"
    /\ \E found \in get_winsdk_path :
          sign_pc' = IF found THEN "loop" ELSE "raised_registry"
    /\ UNCHANGED <<signtool_rc, sign_i, sign_calls, sign_log>>
    /\ UNCHANGED <<isVars, inputVars, fs, prVars, caVars, pfxVars, rmVars>>

SignAttempt ==
    /\ sign_pc = "loop"
    /\ sign_i <= Len(timestamp_urls)
    /\ LET turl == timestamp_urls[sign_i]
           rc == signtool_rc[sign_i]
       IN /\ sign_calls' = Append(sign_calls,
                 [turl |-> turl, p |-> password, returncode |-> rc])
          /\ sign_log' = sign_log \o sign_records(rc)
          /\ IF sign_branch(rc) = "continue"
                THEN sign_i' = sign_i + 1 /\ sign_pc' = "loop"
                ELSE sign_i' = sign_i /\ sign_pc' = "returned"
    /\ UNCHANGED signtool_rc
    /\ UNCHANGED <<isVars, inputVars, fs, prVars, caVars, pfxVars, rmVars>>

SignExhausted ==
    /\ sign_pc = "loop"
    /\ sign_i > Len(timestamp_urls)
    /\ sign_pc' = "raised_exhausted"
    /\ UNCHANGED <<signtool_rc, sign_i, sign_calls, sign_log>>
    /\ UNCHANGED <<isVars, inputVars, fs, prVars, caVars, pfxVars, rmVars>>

----------------------------------------------------------------------------
(* run_makecert_authority and run_makecert_enduser *)

\* The calls the two functions make on shell (WScript.Shell) and on time.
Run == [act |-> "Run", arg |-> "cmd", res |-> FALSE, dur |-> 0]
AppActivate(r) ==
    [act |-> "AppActivate", arg |-> "Create Private Key Password", res |-> r, dur |-> 0]
sleep(d) == [act |-> "sleep", arg |-> "", res |-> FALSE, dur |-> d]
SendKeys(keys) == [act |-> "SendKeys", arg |-> keys, res |-> FALSE, dur |-> 0]

\* A wait loop of 30 rounds.
PollCount_thirty == 20 + 10

\* for _ in xrange(20)
PollCount == 20

\* Inside the wait loop: if shell.AppActivate(...): break, else time.sleep(0.5).
popup_poll_never_breaks(r) == "sleep"

popup_poll(r) == IF r THEN "break" ELSE "sleep"

\* After the wait loop: if not shell.AppActivate(...): raise RuntimeError.
popup_final_never_raises(r) == "keys"

popup_final(r) == IF r THEN "keys" ELSE "timeout"

\* run_makecert_authority's statements without the password confirmation.
run_makecert_authority_keys_no_confirm(pw) ==
    << sleep(2),
       SendKeys(pw), sleep(2),
       SendKeys("{TAB}"), sleep(2),
       SendKeys("{ENTER}"), sleep(5),
       SendKeys(pw), sleep(2),
       SendKeys("{TAB}"), sleep(2),
       SendKeys("{ENTER}"), sleep(5) >>

\* run_makecert_authority's statements without the sleep after the first TAB.
run_makecert_authority_keys_no_settle(pw) ==
    << sleep(2),
       SendKeys(pw), sleep(2),
       SendKeys("{TAB}"),
       SendKeys(pw), sleep(2),
       SendKeys("{TAB}"), sleep(2),
       SendKeys("{ENTER}"), sleep(5),
       SendKeys(pw), sleep(2),
       SendKeys("{TAB}"), sleep(2),
       SendKeys("{ENTER}"), sleep(5) >>

\* The statements of run_makecert_authority that follow the wait.
run_makecert_authority_keys(pw) ==
    << sleep(2),
       \* First screen
       SendKeys(pw), sleep(2),
       SendKeys("{TAB}"), sleep(2),
       SendKeys(pw), sleep(2),
       SendKeys("{TAB}"), sleep(2),
       SendKeys("{ENTER}"), sleep(5),
       \* Second screen
       SendKeys(pw), sleep(2),
       SendKeys("{TAB}"), sleep(2),
       SendKeys("{ENTER}"), sleep(5) >>

\* run_makecert_enduser's statements without the third screen.
run_makecert_enduser_keys_two_screens(pw) ==
    << SendKeys(pw), sleep(2),
       SendKeys("{TAB}"), sleep(2),
       SendKeys(pw), sleep(2),
       SendKeys("{TAB}"), sleep(2),
       SendKeys("{ENTER}"), sleep(5),
       SendKeys(pw), sleep(2),
       SendKeys("{TAB}"), sleep(2),
       SendKeys("{ENTER}"), sleep(5) >>

\* run_makecert_enduser's statements with the second screen's title activated
\* before its keystrokes.
run_makecert_enduser_keys_activates_second(pw) ==
    << SendKeys(pw), sleep(2),
       SendKeys("{TAB}"), sleep(2),
       SendKeys(pw), sleep(2),
       SendKeys("{TAB}"), sleep(2),
       SendKeys("{ENTER}"), sleep(5),
       AppActivate(TRUE),
       SendKeys(pw), sleep(2),
       SendKeys("{TAB}"), sleep(2),
       SendKeys("{ENTER}"), sleep(5),
       SendKeys(pw), sleep(2),
       SendKeys("{TAB}"), sleep(2),
       SendKeys("{ENTER}"), sleep(5) >>

\* The statements of run_makecert_enduser that follow the wait.
run_makecert_enduser_keys(pw) ==
    << \* First screen
       SendKeys(pw), sleep(2),
       SendKeys("{TAB}"), sleep(2),
       SendKeys(pw), sleep(2),
       SendKeys("{TAB}"), sleep(2),
       SendKeys("{ENTER}"), sleep(5),
       \* Second screen
       SendKeys(pw), sleep(2),
       SendKeys("{TAB}"), sleep(2),
       SendKeys("{ENTER}"), sleep(5),
       \* Third screen
       SendKeys(pw), sleep(2),
       SendKeys("{TAB}"), sleep(2),
       SendKeys("{ENTER}"), sleep(5) >>

popup_keys ==
    IF pr_variant = "authority"
        THEN run_makecert_authority_keys(password)
        ELSE run_makecert_enduser_keys(password)

\* shell = Dispatch('WScript.Shell'); shell.Run(cmd, 1, False)
PopupRun ==
    /\ pr_pc = "call"
    /\ pr_trace' = Append(pr_trace, Run)
    /\ pr_pc' = "poll"
    /\ pr_n' = 0
    /\ UNCHANGED <<pr_variant, pr_k>>
    /\ UNCHANGED <<isVars, inputVars, fs, signVars, caVars, pfxVars, rmVars>>

\* The wait loop's AppActivate with break leading straight to the keystrokes.
PopupPoll_break_skips_final ==
    /\ pr_pc = "poll"
    /\ pr_n < PollCount
    /\ \E r \in BOOLEAN :
          /\ pr_trace' = Append(pr_trace, AppActivate(r))
          /\ pr_pc' = IF r THEN "keys" ELSE "pollsleep"
    /\ UNCHANGED <<pr_variant, pr_n, pr_k>>
    /\ UNCHANGED <<isVars, inputVars, fs, signVars, caVars, pfxVars, rmVars>>

\* One AppActivate of the wait loop.
PopupPoll ==
    /\ pr_pc = "poll"
    /\ pr_n < PollCount
    /\ \E r \in BOOLEAN :
          /\ pr_trace' = Append(pr_trace, AppActivate(r))
          /\ pr_pc' = IF popup_poll(r) = "break" THEN "final" ELSE "pollsleep"
    /\ UNCHANGED <<pr_variant, pr_n, pr_k>>
    /\ UNCHANGED <<isVars, inputVars, fs, signVars, caVars, pfxVars, rmVars>>

\* The time.sleep(0.5) of the wait loop; the loop ends after PollCount rounds.
PopupPollSleep ==
    /\ pr_pc = "pollsleep"
    /\ pr_trace' = Append(pr_trace, sleep(5))
    /\ pr_n' = pr_n + 1
    /\ pr_pc' = IF pr_n + 1 < PollCount THEN "poll" ELSE "final"
    /\ UNCHANGED <<pr_variant, pr_k>>
    /\ UNCHANGED <<isVars, inputVars, fs, signVars, caVars, pfxVars, rmVars>>

\* The AppActivate after the wait loop, which raises on failure.
PopupFinal ==
    /\ pr_pc = "final"
    /\ \E r \in BOOLEAN :
          /\ pr_trace' = Append(pr_trace, AppActivate(r))
          /\ pr_pc' = popup_final(r)
    /\ pr_k' = 1
    /\ UNCHANGED <<pr_variant, pr_n>>
    /\ UNCHANGED <<isVars, inputVars, fs, signVars, caVars, pfxVars, rmVars>>

\* One statement of the keystroke schedule; after the last, the function returns.
PopupKeys ==
    /\ pr_pc = "keys"
    /\ pr_k <= Len(popup_keys)
    /\ pr_trace' = Append(pr_trace, popup_keys[pr_k])
    /\ pr_k' = pr_k + 1
    /\ pr_pc' = IF pr_k = Len(popup_keys) THEN "done" ELSE "keys"
    /\ UNCHANGED <<pr_variant, pr_n>>
    /\ UNCHANGED <<isVars, inputVars, fs, signVars, caVars, pfxVars, rmVars>>

PopupTerminated == pr_pc \in {"done", "timeout"}

\* The process shell.Run started exists from the Run call on.
Launched == \E i \in 1..Len(pr_trace) : pr_trace[i].act = "Run"

----------------------------------------------------------------------------
(* The makecert process that shell.Run started *)

\* The files makecert is told to create (-sv <pvk> <cer>), by caller.
makecert_outputs ==
    IF op = "make_ca" THEN {"pvk_filename", "cer_filename"}
    ELSE IF op = "make_pfx" THEN {"tmpd/mykey.pvk", "tmpd/mycert.cer"}
    ELSE {}

\* makecert runs beside the caller and is never waited on: it creates an output
\* file at any moment after the launch, or never; a file in tmpd only while
\* tmpd exists.
MakecertWrites ==
    /\ Launched
    /\ \E f \in makecert_outputs \ fs :
          /\ op = "make_pfx" => "tmpd" \in fs
          /\ fs' = fs \cup {f}
    /\ UNCHANGED <<isVars, inputVars, signVars, prVars, caVars, pfxVars, rmVars>>

----------------------------------------------------------------------------
(* datetime.date arithmetic and formatting, as make_ca uses them *)

is_leap(y) == (y % 4 = 0 /\ y % 100 # 0) \/ y % 400 = 0

days_in_month(y, m) ==
    IF m \in {1, 3, 5, 7, 8, 10, 12} THEN 31
    ELSE IF m \in {4, 6, 9, 11} THEN 30
    ELSE IF is_leap(y) THEN 29 ELSE 28

next_day(d) ==
    IF d.day < days_in_month(d.year, d.month)
        THEN [d EXCEPT !.day = d.day + 1]
    ELSE IF d.month < 12
        THEN [year |-> d.year, month |-> d.month + 1, day |-> 1]
    ELSE [year |-> d.year + 1, month |-> 1, day |-> 1]

prev_day(d) ==
    IF d.day > 1
        THEN [d EXCEPT !.day = d.day - 1]
    ELSE IF d.month > 1
        THEN [year |-> d.year, month |-> d.month - 1,
              day |-> days_in_month(d.year, d.month - 1)]
    ELSE [year |-> d.year - 1, month |-> 12, day |-> 31]

\* date + timedelta and date - timedelta: only the timedelta's days count.
RECURSIVE date_plus_days(_, _)
date_plus_days(d, n) ==
    IF n = 0 THEN d
    ELSE IF n > 0 THEN date_plus_days(next_day(d), n - 1)
    ELSE date_plus_days(prev_day(d), n + 1)

\* datetime.timedelta(days=.., hours=..).days: the hours are normalised into
\* whole days, and the rest goes to the seconds field.
timedelta_days(days, hours) == days + (hours \div 24)

Digit(n) == << "0", "1", "2", "3", "4", "5", "6", "7", "8", "9" >>[n + 1]

\* strftime('%m/%d/%Y')
strftime(d) ==
    << Digit(d.month \div 10), Digit(d.month % 10), "/",
       Digit(d.day \div 10), Digit(d.day % 10), "/",
       Digit(d.year \div 1000), Digit((d.year \div 100) % 10),
       Digit((d.year \div 10) % 10), Digit(d.year % 10) >>

\* beg_date = now.date() - datetime.timedelta(days=1)
beg_date(n) == date_plus_days(n.date, 0 - timedelta_days(1, 0))

\* end_date = now.date() + datetime.timedelta(hours=valid_hours)
end_date(n, hours) == date_plus_days(n.date, timedelta_days(0, hours))

----------------------------------------------------------------------------
(* make_ca *)

\* for fname in (pvk_filename, cer_filename)
ca_confirm_only_pvk == << "pvk_filename" >>

ca_confirm == << "pvk_filename", "cer_filename" >>

\* From the entry to the call of run_makecert_authority.
MakeCaEnter ==
    /\ op = "make_ca"
    /\ ca_pc = "idle"
    /\ \E found \in get_winsdk_path, isfile_mkcert \in BOOLEAN :
          IF ~found
              THEN /\ ca_pc' = "raised_registry"
                   /\ UNCHANGED <<ca_cmd, prVars>>
          ELSE IF ~isfile_mkcert
              THEN /\ ca_pc' = "raised_assert"
                   /\ UNCHANGED <<ca_cmd, prVars>>
          ELSE /\ ca_cmd' = [b |-> strftime(beg_date(now)),
                             e |-> strftime(end_date(now, valid_hours))]
               /\ ca_pc' = "popup"
               /\ pr_pc' = "call"
               /\ pr_variant' = "authority"
               /\ UNCHANGED <<pr_n, pr_k, pr_trace>>
    /\ UNCHANGED <<ca_j, ca_checks, ca_err, ca_calls>>
    /\ UNCHANGED <<isVars, inputVars, fs, signVars, pfxVars, rmVars>>

\* make_ca going on to the checks whether or not the responder raised.
MakeCaPopupEnds_ignores_timeout ==
    /\ ca_pc = "popup"
    /\ PopupTerminated
    /\ ca_pc' = "confirm"
    /\ ca_j' = 1
    /\ UNCHANGED <<ca_cmd, ca_checks, ca_err, ca_calls>>
    /\ UNCHANGED <<isVars, inputVars, fs, signVars, prVars, pfxVars, rmVars>>

\* run_makecert_authority returns, or its RuntimeError passes through make_ca.
MakeCaPopupEnds ==
    /\ ca_pc = "popup"
    /\ PopupTerminated
    /\ ca_pc' = IF pr_pc = "done" THEN "confirm" ELSE "raised_timeout"
    /\ ca_j' = 1
    /\ UNCHANGED <<ca_cmd, ca_checks, ca_err, ca_calls>>
    /\ UNCHANGED <<isVars, inputVars, fs, signVars, prVars, pfxVars, rmVars>>

\* One round of 'Confirm expected output'.
MakeCaConfirm ==
    /\ ca_pc = "confirm"
    /\ ca_j <= Len(ca_confirm)
    /\ LET fname == ca_confirm[ca_j]
           isfile == fname \in fs
       IN /\ ca_checks' = Append(ca_checks, [fname |-> fname, isfile |-> isfile])
          /\ IF ~isfile
                THEN /\ ca_pc' = "raised_missing"
                     /\ ca_err' = fname
                     /\ ca_j' = ca_j
                ELSE /\ ca_pc' = IF ca_j = Len(ca_confirm) THEN "addstore" ELSE "confirm"
                     /\ ca_j' = ca_j + 1
                     /\ ca_err' = ca_err
    /\ UNCHANGED <<ca_cmd, ca_calls>>
    /\ UNCHANGED <<isVars, inputVars, fs, signVars, prVars, pfxVars, rmVars>>

\* subprocess.check_output(["certutil.exe", '-addstore', 'Root', cer_filename])
MakeCaAddStore ==
    /\ ca_pc = "addstore"
    /\ \E rc \in ExitCodes :
          /\ ca_calls' = Append(ca_calls,
                 [tool |-> "certutil.exe", verb |-> "-addstore", store |-> "Root",
                  arg |-> "cer_filename", returncode |-> rc])
          /\ ca_pc' = IF rc = 0 THEN "returned" ELSE "raised_certutil"
    /\ UNCHANGED <<ca_cmd, ca_j, ca_checks, ca_err>>
    /\ UNCHANGED <<isVars, inputVars, fs, signVars, prVars, pfxVars, rmVars>>

----------------------------------------------------------------------------
(* make_pfx *)

TmpFiles == {"tmpd/mykey.pvk", "tmpd/mycert.cer", "tmpd/mycert.spc"}

\* shutil.rmtree(tmpd, ignore_errors=True)
rmtree_files_only(files) == files \ TmpFiles

rmtree(files) == files \ (TmpFiles \cup {"tmpd"})

\* make_pfx confirming the key file alone.
pfx_confirm_only_pvk == << "tmpd/mykey.pvk" >>

\* for fname in (pvk, cer)
pfx_confirm == << "tmpd/mykey.pvk", "tmpd/mycert.cer" >>

\* From the entry to the call of run_makecert_enduser.
MakePfxEnter ==
    /\ op = "make_pfx"
    /\ pfx_pc = "idle"
    /\ \E found \in get_winsdk_path :
          IF ~found
              THEN /\ pfx_pc' = "raised_registry"
                   /\ UNCHANGED <<pfx_tmpd, fs, prVars>>
              ELSE /\ fs' = fs \cup {"tmpd"}
                   /\ pfx_tmpd' = TRUE
                   /\ pfx_pc' = "popup"
                   /\ pr_pc' = "call"
                   /\ pr_variant' = "enduser"
                   /\ UNCHANGED <<pr_n, pr_k, pr_trace>>
    /\ UNCHANGED <<pfx_j, pfx_err, pfx_calls>>
    /\ UNCHANGED <<isVars, inputVars, signVars, caVars, rmVars>>

\* run_makecert_enduser returns, or its RuntimeError leaves the try block.
MakePfxPopupEnds ==
    /\ pfx_pc = "popup"
    /\ PopupTerminated
    /\ IF pr_pc = "done"
          THEN pfx_pc' = "confirm" /\ pfx_err' = pfx_err
          ELSE pfx_pc' = "finally" /\ pfx_err' = "timeout"
    /\ pfx_j' = 1
    /\ UNCHANGED <<pfx_calls, pfx_tmpd>>
    /\ UNCHANGED <<isVars, inputVars, fs, signVars, prVars, caVars, rmVars>>

\* One round of 'Confirm expected output'.
MakePfxConfirm ==
    /\ pfx_pc = "confirm"
    /\ pfx_j <= Len(pfx_confirm)
    /\ IF pfx_confirm[pfx_j] \notin fs
          THEN /\ pfx_pc' = "finally"
               /\ pfx_err' = pfx_confirm[pfx_j]
               /\ pfx_j' = pfx_j
          ELSE /\ pfx_pc' = IF pfx_j = Len(pfx_confirm) THEN "cert2spc" ELSE "confirm"
               /\ pfx_j' = pfx_j + 1
               /\ pfx_err' = pfx_err
    /\ UNCHANGED <<pfx_calls, pfx_tmpd>>
    /\ UNCHANGED <<isVars, inputVars, fs, signVars, prVars, caVars, rmVars>>

\* subprocess.check_output([cert2spc, cer, spc]); exit 0 leaves the .spc file.
MakePfxCert2spc ==
    /\ pfx_pc = "cert2spc"
    /\ \E rc \in ExitCodes :
          /\ pfx_calls' = Append(pfx_calls,
                 [tool |-> "cert2spc.exe", pi |-> "", po |-> "", returncode |-> rc])
          /\ IF rc = 0
                THEN /\ pfx_pc' = "pvk2pfx"
                     /\ pfx_err' = pfx_err
                     /\ fs' = fs \cup {"tmpd/mycert.spc"}
                ELSE /\ pfx_pc' = "finally"
                     /\ pfx_err' = "cert2spc"
                     /\ fs' = fs
    /\ UNCHANGED <<pfx_j, pfx_tmpd>>
    /\ UNCHANGED <<isVars, inputVars, signVars, prVars, caVars, rmVars>>

\* subprocess.check_output([pvk2pfx, ...]); exit 0 leaves the .pfx file.
MakePfxPvk2pfx ==
    /\ pfx_pc = "pvk2pfx"
    /\ \E rc \in ExitCodes :
          /\ pfx_calls' = Append(pfx_calls,
                 [tool |-> "pvk2pfx.exe", pi |-> password, po |-> password,
                  returncode |-> rc])
          /\ pfx_pc' = "finally"
          /\ IF rc = 0
                THEN pfx_err' = pfx_err /\ fs' = fs \cup {"pfx_filename"}
                ELSE pfx_err' = "pvk2pfx" /\ fs' = fs
    /\ UNCHANGED <<pfx_j, pfx_tmpd>>
    /\ UNCHANGED <<isVars, inputVars, signVars, prVars, caVars, rmVars>>

\* The finally clause, then return 0 or the pending exception.
MakePfxFinally ==
    /\ pfx_pc = "finally"
    /\ fs' = rmtree(fs)
    /\ pfx_pc' = IF pfx_err = "none" THEN "returned" ELSE "raised"
    /\ UNCHANGED <<pfx_j, pfx_err, pfx_calls, pfx_tmpd>>
    /\ UNCHANGED <<isVars, inputVars, signVars, prVars, caVars, rmVars>>

----------------------------------------------------------------------------
(* remove_cert_fromstore and remove_ca *)

\* Text is a sequence of characters.
SerialNumberPrefix ==
    << "S", "e", "r", "i", "a", "l", " ", "N", "u", "m", "b", "e", "r", ":", " " >>

\* The character class [a-f\d]
SerialChars ==
    {"a", "b", "c", "d", "e", "f", "0", "1", "2", "3", "4", "5", "6", "7", "8", "9"}

\* output.split("\n")
RECURSIVE split(_)
split(s) ==
    IF \A i \in 1..Len(s) : s[i] # "\n"
        THEN << s >>
        ELSE LET i == CHOOSE j \in 1..Len(s) :
                          s[j] = "\n" /\ \A h \in 1..(j - 1) : s[h] # "\n"
             IN << SubSeq(s, 1, i - 1) >> \o split(SubSeq(s, i + 1, Len(s)))

\* re.match(r'^Serial Number: ([a-f\d]+)$', line): group(1), or << >> for no
\* match.  '$' also matches before a final newline, which a piece of split has not.
re_match(line) ==
    LET n == Len(SerialNumberPrefix)
    IN IF /\ Len(line) > n
          /\ SubSeq(line, 1, n) = SerialNumberPrefix
          /\ \A i \in (n + 1)..Len(line) : line[i] \in SerialChars
          THEN SubSeq(line, n + 1, Len(line))
          ELSE << >>

\* The same loop with snums kept as a set of distinct serials.
RECURSIVE collect_snums_distinct(_, _)
collect_snums_distinct(lines, i) ==
    IF i > Len(lines) THEN << >>
    ELSE LET rest == collect_snums_distinct(lines, i + 1)
             m == re_match(lines[i])
         IN IF m # << >> /\ \A h \in 1..Len(rest) : rest[h] # m
               THEN << m >> \o rest
               ELSE rest

\* The loop that fills snums, over the lines from index i on.
RECURSIVE collect_snums(_, _)
collect_snums(lines, i) ==
    IF i > Len(lines) THEN << >>
    ELSE IF re_match(lines[i]) # << >>
        THEN << re_match(lines[i]) >> \o collect_snums(lines, i + 1)
    ELSE collect_snums(lines, i + 1)

\* What certutil -store may print: up to MaxLines lines, each ended by a newline.
MaxLines == 2

OutputLines ==
    { SerialNumberPrefix \o << "1", "a" >>,
      SerialNumberPrefix \o << "f", "0", "7" >>,
      SerialNumberPrefix \o << "1", "A" >>,
      SerialNumberPrefix \o << "1", "a", " " >>,
      SerialNumberPrefix \o << "x", "1" >>,
      << " " >> \o SerialNumberPrefix \o << "1", "a" >>,
      SerialNumberPrefix,
      << "I", "s", "s", "u", "e", "r", ":", " ", "C", "N", "=", "a", "1" >>,
      << >> }

RECURSIVE unlines(_)
unlines(ls) ==
    IF ls = << >> THEN << >>
    ELSE Head(ls) \o << "\n" >> \o unlines(Tail(ls))

Outputs ==
    { unlines(ls) : ls \in UNION { [1..n -> OutputLines] : n \in 0..MaxLines } }

Stores == {"Root", "CA", "My"}

\* remove_cert_fromstore is called by the user.
RemoveCertEnter ==
    /\ op = "remove_cert_fromstore"
    /\ rm_pc = "idle"
    /\ \E store \in Stores : rm_store' = store
    /\ rm_pc' = "query"
    /\ UNCHANGED <<rca_pc, rm_output, rm_snums, rm_k, rm_calls>>
    /\ UNCHANGED <<isVars, inputVars, fs, signVars, prVars, caVars, pfxVars>>

\* certutil -store, then the scan of its output for serial numbers.
RemoveCertQuery ==
    /\ rm_pc = "query"
    /\ \E rc \in ExitCodes :
          /\ rm_calls' = Append(rm_calls,
                 [verb |-> "-store", store |-> rm_store, arg |-> << >>,
                  returncode |-> rc])
          /\ IF rc # 0
                THEN /\ rm_pc' = "raised_certutil"
                     /\ UNCHANGED <<rm_output, rm_snums, rm_k>>
                ELSE \E output \in Outputs :
                        /\ rm_output' = output
                        /\ rm_snums' = collect_snums(split(output), 1)
                        /\ rm_k' = 1
                        /\ rm_pc' = IF rm_snums' = << >>
                                        THEN "raised_nomatch" ELSE "delete"
    /\ UNCHANGED <<rca_pc, rm_store>>
    /\ UNCHANGED <<isVars, inputVars, fs, signVars, prVars, caVars, pfxVars>>

\* The deleting loop going on to the next serial after a failed delete.
RemoveCertDelete_continues_after_failure ==
    /\ rm_pc = "delete"
    /\ rm_k <= Len(rm_snums)
    /\ \E rc \in ExitCodes :
          /\ rm_calls' = Append(rm_calls,
                 [verb |-> "-delstore", store |-> rm_store, arg |-> rm_snums[rm_k],
                  returncode |-> rc])
          /\ rm_k' = rm_k + 1
          /\ rm_pc' = IF rm_k = Len(rm_snums) THEN "returned" ELSE "delete"
    /\ UNCHANGED <<rca_pc, rm_store, rm_output, rm_snums>>
    /\ UNCHANGED <<isVars, inputVars, fs, signVars, prVars, caVars, pfxVars>>

\* One round of the deleting loop: certutil -delstore store snum.
RemoveCertDelete ==
    /\ rm_pc = "delete"
    /\ rm_k <= Len(rm_snums)
    /\ \E rc \in ExitCodes :
          /\ rm_calls' = Append(rm_calls,
                 [verb |-> "-delstore", store |-> rm_store, arg |-> rm_snums[rm_k],
                  returncode |-> rc])
          /\ IF rc # 0
                THEN rm_pc' = "raised_certutil" /\ rm_k' = rm_k
                ELSE /\ rm_k' = rm_k + 1
                     /\ rm_pc' = IF rm_k = Len(rm_snums) THEN "returned" ELSE "delete"
    /\ UNCHANGED <<rca_pc, rm_store, rm_output, rm_snums>>
    /\ UNCHANGED <<isVars, inputVars, fs, signVars, prVars, caVars, pfxVars>>

RemoveCertRaised == rm_pc \in {"raised_certutil", "raised_nomatch"}

\* remove_ca: remove_cert_fromstore(certid, 'Root')
RemoveCaEnter ==
    /\ op = "remove_ca"
    /\ rca_pc = "idle"
    /\ rca_pc' = "Root"
    /\ rm_store' = "Root"
    /\ rm_pc' = "query"
    /\ UNCHANGED <<rm_output, rm_snums, rm_k, rm_calls>>
    /\ UNCHANGED <<isVars, inputVars, fs, signVars, prVars, caVars, pfxVars>>

\* remove_ca: the first call returned; remove_cert_fromstore(certid, 'CA')
RemoveCaSecond ==
    /\ rca_pc = "Root"
    /\ rm_pc = "returned"
    /\ rca_pc' = "CA"
    /\ rm_store' = "CA"
    /\ rm_pc' = "query"
    /\ rm_output' = << >>
    /\ rm_snums' = << >>
    /\ rm_k' = 1
    /\ UNCHANGED rm_calls
    /\ UNCHANGED <<isVars, inputVars, fs, signVars, prVars, caVars, pfxVars>>

\* remove_ca: the second call returned, or either call's exception passes through.
RemoveCaEnds ==
    /\ rca_pc \in {"Root", "CA"}
    /\ \/ rca_pc = "CA" /\ rm_pc = "returned" /\ rca_pc' = "returned"
       \/ RemoveCertRaised /\ rca_pc' = "raised"
    /\ UNCHANGED <<rm_pc, rm_store, rm_output, rm_snums, rm_k, rm_calls>>
    /\ UNCHANGED <<isVars, inputVars, fs, signVars, prVars, caVars, pfxVars>>

----------------------------------------------------------------------------
(* is_signed *)

\* try: check_output(...); return True / except CalledProcessError: return False
is_signed_ignores_exit_code(rc) == "True"

is_signed_result(rc) == IF rc = 0 THEN "True" ELSE "False"

IsSignedEnter ==
    /\ op = "is_signed"
    /\ is_pc = "idle"
    /\ \E found \in get_winsdk_path :
          is_pc' = IF found THEN "verify" ELSE "raised_registry"
    /\ UNCHANGED <<is_calls, is_ret>>
    /\ UNCHANGED <<inputVars, fs, signVars, prVars, caVars, pfxVars, rmVars>>

\* signtool verify /q /pa exe
IsSignedVerify ==
    /\ is_pc = "verify"
    /\ \E rc \in ExitCodes :
          /\ is_calls' = Append(is_calls,
                 [tool |-> "signtool.exe", verb |-> "verify", returncode |-> rc])
          /\ is_ret' = is_signed_result(rc)
    /\ is_pc' = "returned"
    /\ UNCHANGED <<inputVars, fs, signVars, prVars, caVars, pfxVars, rmVars>>

----------------------------------------------------------------------------
(* The specification *)

Init ==
    /\ op \in Ops
    /\ password \in Passwords
    /\ now \in (IF op = "make_ca" THEN Nows ELSE {NoNow})
    /\ valid_hours \in (IF op = "make_ca" THEN ValidHours ELSE {24})
    /\ fs \in (IF op = "make_ca"
                  THEN SUBSET {"pvk_filename", "cer_filename"} ELSE {{}})
    /\ signtool_rc \in (IF op = "sign_code"
                           THEN [1..4 -> ExitCodes] ELSE {[i \in 1..4 |-> 0]})
    /\ sign_pc = "idle"
    /\ sign_i = 1
    /\ sign_calls = << >>
    /\ sign_log = << >>
    /\ pr_pc = (IF op \in {"run_makecert_authority", "run_makecert_enduser"}
                   THEN "call" ELSE "idle")
    /\ pr_variant = (IF op = "run_makecert_authority" THEN "authority"
                     ELSE IF op = "run_makecert_enduser" THEN "enduser"
                     ELSE "none")
    /\ pr_n = 0
    /\ pr_k = 1
    /\ pr_trace = << >>
    /\ ca_pc = "idle"
    /\ ca_cmd = [b |-> << >>, e |-> << >>]
    /\ ca_j = 1
    /\ ca_checks = << >>
    /\ ca_err = "none"
    /\ ca_calls = << >>
    /\ pfx_pc = "idle"
    /\ pfx_j = 1
    /\ pfx_err = "none"
    /\ pfx_calls = << >>
    /\ pfx_tmpd = FALSE
    /\ rca_pc = "idle"
    /\ rm_pc = "idle"
    /\ rm_store = "none"
    /\ rm_output = << >>
    /\ rm_snums = << >>
    /\ rm_k = 1
    /\ rm_calls = << >>
    /\ is_pc = "idle"
    /\ is_calls = << >>
    /\ is_ret = "none"

Next ==
    \/ SignEnter
    \/ SignAttempt
    \/ SignExhausted
    \/ PopupRun
    \/ PopupPoll
    \/ PopupPollSleep
    \/ PopupFinal
    \/ PopupKeys
    \/ MakecertWrites
    \/ MakeCaEnter
    \/ MakeCaPopupEnds
    \/ MakeCaConfirm
    \/ MakeCaAddStore
    \/ MakePfxEnter
    \/ MakePfxPopupEnds
    \/ MakePfxConfirm
    \/ MakePfxCert2spc
    \/ MakePfxPvk2pfx
    \/ MakePfxFinally
    \/ RemoveCertEnter
    \/ RemoveCertQuery
    \/ RemoveCertDelete
    \/ RemoveCaEnter
    \/ RemoveCaSecond
    \/ RemoveCaEnds
    \/ IsSignedEnter
    \/ IsSignedVerify

Spec == Init /\ [][Next]_vars

\* The statements of one call of run_makecert_authority or run_makecert_enduser.
PopupStep == PopupRun \/ PopupPoll \/ PopupPollSleep \/ PopupFinal \/ PopupKeys

\* Every COM call and every time.sleep of the function returns, so a call that
\* has been entered goes on to its next statement.
FairSpec == Spec /\ WF_vars(PopupStep)

----------------------------------------------------------------------------
(* sign_code: properties *)

SignLoopEnded == sign_pc \in {"returned", "raised_exhausted"}

\* C1: in sign_code, when signtool exits for an endpoint that is not the last
\* with a nonzero code other than 2, the error is logged and sign_code does not
\* return to the caller as a completed signing but goes on to the next endpoint;
\* only an exit code of 0 ends the loop with a normal return.
C1_SigningErrorAdvances ==
    /\ \A k \in 1..Len(sign_calls) :
          (k < Len(timestamp_urls) /\ sign_calls[k].returncode \notin {0, 2}) =>
              /\ \E h \in 1..Len(sign_log) : sign_log[h] = "error"
              /\ sign_pc # "returned"
              /\ SignLoopEnded => Len(sign_calls) > k
    /\ sign_pc = "returned" => sign_calls[Len(sign_calls)].returncode = 0

\* C2: for every N in 0..3, when signtool exits 2 for the first N endpoints and
\* 0 for endpoint N+1, sign_code (once it has found signtool) returns normally
\* after exactly N+1 invocations, one per endpoint in list order, the last with
\* endpoint N+1; and in every execution no invocation follows one that exited 0,
\* and there are never more than 4 invocations.
C2_FailoverToFirstWorkingEndpoint ==
    /\ \A N \in 0..3 :
          ( /\ \A i \in 1..N : signtool_rc[i] = 2
            /\ signtool_rc[N + 1] = 0
            /\ SignLoopEnded )
          => /\ sign_pc = "returned"
             /\ Len(sign_calls) = N + 1
             /\ sign_calls[N + 1].turl = timestamp_urls[N + 1]
             /\ sign_calls[N + 1].returncode = 0
    /\ \A i \in 1..Len(sign_calls) : sign_calls[i].turl = timestamp_urls[i]
    /\ \A i \in 1..(Len(sign_calls) - 1) : sign_calls[i].returncode # 0
    /\ Len(sign_calls) <= 4
    /\ sign_pc = "loop" => Len(sign_calls) = sign_i - 1

C2_Witness ==
    /\ sign_pc = "returned"
    /\ Len(sign_calls) = 4
    /\ \A i \in 1..3 : sign_calls[i].returncode = 2
    /\ sign_calls[4].returncode = 0

\* C3: when signtool exits 2 for every endpoint, sign_code raises the
\* exhausted-retries error after exactly 4 invocations; and it raises that error
\* in no execution in which an invocation exited 0.
C3_AllUnreachableExhaustsRetries ==
    /\ ((\A i \in 1..4 : signtool_rc[i] = 2) /\ SignLoopEnded)
          => sign_pc = "raised_exhausted"
    /\ sign_pc = "raised_exhausted"
          => /\ Len(sign_calls) = 4
             /\ \A i \in 1..Len(sign_calls) : sign_calls[i].returncode # 0

C3_Witness ==
    /\ sign_pc = "raised_exhausted"
    /\ Len(sign_calls) = 4
    /\ \A i \in 1..4 : sign_calls[i].returncode = 2

----------------------------------------------------------------------------
(* remove_ca and remove_cert_fromstore: properties *)

RemoveCaEnded == rca_pc \in {"returned", "raised"}

Queried(store) ==
    \E i \in 1..Len(rm_calls) :
        rm_calls[i].verb = "-store" /\ rm_calls[i].store = store

Deletes(store) ==
    SelectSeq(rm_calls, LAMBDA c : c.verb = "-delstore" /\ c.store = store)

NoCertutilFailure == \A i \in 1..Len(rm_calls) : rm_calls[i].returncode = 0

\* C4: remove_ca queries the Root store and then the CA store whatever the
\* other's result, and signals 'no matching certificate' only if both stores
\* yield no serial number: with matches in exactly one store, that store's
\* entries are deleted, the other is still queried, and remove_ca completes
\* without the no-match error.  (Stated for runs in which certutil never fails.)
C4_StoresQueriedIndependently ==
    (RemoveCaEnded /\ NoCertutilFailure) =>
        /\ Queried("Root")
        /\ Queried("CA")
        /\ rm_pc = "raised_nomatch" =>
              (Deletes("Root") = << >> /\ Deletes("CA") = << >>)

----------------------------------------------------------------------------
(* run_makecert_authority and run_makecert_enduser: properties *)

PopupQueries == SelectSeq(pr_trace, LAMBDA e : e.act = "AppActivate")

PopupSends == SelectSeq(pr_trace, LAMBDA e : e.act = "SendKeys")

\* Where in pr_trace the k-th AppActivate is.
QueryIndex(k) ==
    CHOOSE i \in 1..Len(pr_trace) :
        /\ pr_trace[i].act = "AppActivate"
        /\ Cardinality({h \in 1..i : pr_trace[h].act = "AppActivate"}) = k

\* C5 as claimed: if none of the first 20 window queries reports the window,
\* the responder raises the timeout error and sends no keystroke.
C5_TimeoutAfter20Queries ==
    (Len(PopupQueries) >= 20 /\ \A i \in 1..20 : ~PopupQueries[i].res) =>
        /\ PopupSends = << >>
        /\ PopupTerminated => pr_pc = "timeout"

\* C5 as amended: the responder makes up to 21 window queries, 20 in the wait
\* loop and one after it; if none of the 21 reports the window, the responder
\* raises the timeout error and sends no keystroke.
C5_TimeoutAfter21Queries ==
    /\ Len(PopupQueries) <= PollCount + 1
    /\ ( /\ Len(PopupQueries) = PollCount + 1
         /\ \A i \in 1..(PollCount + 1) : ~PopupQueries[i].res )
       => (pr_pc = "timeout" /\ PopupSends = << >>)

C5_Witness ==
    /\ pr_pc = "timeout"
    /\ Len(PopupQueries) = 21
    /\ \A i \in 1..21 : ~PopupQueries[i].res

\* C6: when the window is reported absent by the first K-1 window queries and
\* present from query K on, 1 <= K <= 20, the responder leaves the wait loop at
\* query K: K-1 sleeps of 0.5 and no keystroke precede query K, only the check
\* after the loop follows it, no timeout is raised, and the keystrokes start.
C6_ProceedsAtQueryK ==
    \A K \in 1..PollCount :
        ( /\ Len(PopupQueries) >= K
          /\ \A i \in 1..(K - 1) : ~PopupQueries[i].res
          /\ \A i \in K..Len(PopupQueries) : PopupQueries[i].res )
        => LET at == QueryIndex(K)
               slept == {i \in 1..(at - 1) : pr_trace[i].act = "sleep"}
           IN /\ Cardinality(slept) = K - 1
              /\ \A i \in slept : pr_trace[i].dur = 5
              /\ \A i \in 1..at : pr_trace[i].act # "SendKeys"
              /\ Len(PopupQueries) <= K + 1
              /\ Len(PopupQueries) = K + 1 =>
                    (QueryIndex(K + 1) = at + 1 /\ pr_pc \in {"keys", "done"})
              /\ pr_pc # "timeout"
              /\ pr_pc = "done" =>
                    (PopupSends # << >> /\ PopupSends[1].arg = password)

C6_Witness ==
    /\ pr_pc = "done"
    /\ Len(PopupQueries) = 21
    /\ \A i \in 1..19 : ~PopupQueries[i].res
    /\ PopupQueries[20].res
    /\ PopupQueries[21].res
    /\ Len(PopupSends) >= 8

----------------------------------------------------------------------------
(* make_ca: properties *)

\* C7: make_ca returns normally only if the private-key file and the
\* certificate file were both found by its checks and both exist; a missing
\* file raises an error that names it; make_ca never returns normally with
\* none or one of the two files present, whenever makecert writes them.
C7_NoPartialSilentSuccess ==
    /\ ca_pc \in {"addstore", "returned", "raised_certutil"} =>
          /\ {"pvk_filename", "cer_filename"} \subseteq fs
          /\ Len(ca_checks) = 2
          /\ \A i \in 1..2 : ca_checks[i].isfile
          /\ {ca_checks[1].fname, ca_checks[2].fname} =
                 {"pvk_filename", "cer_filename"}
    /\ ca_pc = "raised_missing" =>
          /\ ca_checks # << >>
          /\ ca_checks[Len(ca_checks)] = [fname |-> ca_err, isfile |-> FALSE]
    /\ \A i \in 1..Len(ca_checks) :
          ~ca_checks[i].isfile => (ca_pc = "raised_missing" /\ i = Len(ca_checks))

C7_Witness ==
    /\ ca_pc = "returned"
    /\ {"pvk_filename", "cer_filename"} \subseteq fs

\* C10: the begin date make_ca passes to makecert is the calendar date one day
\* before now, and the end date is the calendar date of the instant
\* now + valid_hours hours, for every time of day and every valid_hours >= 0.
C10_ValidityWindow ==
    ca_pc \notin {"idle", "raised_registry", "raised_assert"} =>
        /\ ca_cmd.b = strftime(prev_day(now.date))
        /\ ca_cmd.e =
              strftime(date_plus_days(now.date, (now.hour + valid_hours) \div 24))

----------------------------------------------------------------------------
(* make_pfx: properties *)

----------------------------------------------------------------------------
(* remove_cert_fromstore: properties of the parsing and deleting *)

\* A line that is 'Serial Number: ' followed by one or more of the digits.
IsSerialLine(line, digits) ==
    \E k \in 1..Len(line) :
        /\ SubSeq(line, 1, k - 1) = SerialNumberPrefix
        /\ \A i \in k..Len(line) : line[i] \in digits

SerialLines(output, digits) ==
    SelectSeq(split(output), LAMBDA line : IsSerialLine(line, digits))

\* certutil -store exited 0 and its output was scanned.
Scanned ==
    \/ rm_pc \in {"delete", "returned", "raised_nomatch"}
    \/ rm_pc = "raised_certutil" /\ rm_calls[Len(rm_calls)].verb = "-delstore"

\* The deletes of the current call of remove_cert_fromstore: the invocations
\* after its certutil -store.
CurrentDeletes ==
    LET q == CHOOSE i \in 1..Len(rm_calls) :
                 /\ rm_calls[i].verb = "-store"
                 /\ \A h \in (i + 1)..Len(rm_calls) : rm_calls[h].verb # "-store"
    IN SubSeq(rm_calls, q + 1, Len(rm_calls))

\* C9 as claimed: the serials extracted are as many as the lines 'Serial
\* Number: <hex digits>' (read here as the digits the code accepts); when
\* remove_cert_fromstore has ended, delete-by-serial was invoked exactly once
\* per extracted serial, in output order, on the same store; with no such line
\* the no-match error is raised and nothing deleted.
C9_OneDeletePerSerialLine ==
    Scanned =>
        LET n == Len(SerialLines(rm_output, SerialChars))
            deletes == CurrentDeletes
        IN /\ Len(rm_snums) = n
           /\ n = 0 => (rm_pc = "raised_nomatch" /\ deletes = << >>)
           /\ rm_pc \in {"returned", "raised_certutil"} =>
                 /\ Len(deletes) = n
                 /\ \A j \in 1..n : deletes[j].arg = rm_snums[j]

\* C9 as amended: the serials extracted are, in output order, those of the
\* lines that are 'Serial Number: ' followed by one or more of 0-9 and
\* lowercase a-f and nothing else, one per line; delete-by-serial is invoked
\* on the same store for the extracted serials in order, each at most once, a
\* delete that exits nonzero being the last, and exactly once each when
\* remove_cert_fromstore returns; with no such line the no-match error is
\* raised and delete-by-serial is never invoked.
C9_OneDeletePerLowercaseSerialLine ==
    Scanned =>
        LET found == SerialLines(rm_output, SerialChars)
            n == Len(found)
            deletes == CurrentDeletes
        IN /\ Len(rm_snums) = n
           /\ \A j \in 1..n : SerialNumberPrefix \o rm_snums[j] = found[j]
           /\ n = 0 <=> rm_pc = "raised_nomatch"
           /\ n = 0 => deletes = << >>
           /\ Len(deletes) <= n
           /\ \A j \in 1..Len(deletes) :
                 /\ deletes[j].verb = "-delstore"
                 /\ deletes[j].store = rm_store
                 /\ deletes[j].arg = rm_snums[j]
                 /\ j < Len(deletes) => deletes[j].returncode = 0
           /\ rm_pc = "returned" =>
                 (Len(deletes) = n /\ deletes[n].returncode = 0)
           /\ rm_pc = "raised_certutil" => deletes[Len(deletes)].returncode # 0

C9_Witness ==
    /\ rm_pc = "returned"
    /\ Len(rm_snums) = 2
    /\ rm_snums[1] = rm_snums[2]
    /\ Len(CurrentDeletes) = 2

----------------------------------------------------------------------------
(* is_signed: properties *)

\* C11: is_signed returns true exactly when the signtool verify invocation
\* exits 0, and returns false, without raising, for every nonzero exit code.
C11_TrueExactlyOnExitZero ==
    /\ is_calls # << >> =>
          /\ Len(is_calls) = 1
          /\ is_pc = "returned"
          /\ is_ret = "True" <=> is_calls[1].returncode = 0
          /\ is_ret = "False" <=> is_calls[1].returncode # 0
    /\ is_pc = "returned" => (is_calls # << >> /\ is_ret \in {"True", "False"})

C11_Witness ==
    /\ is_pc = "returned"
    /\ is_ret = "False"
    /\ is_calls[1].returncode = 3

----------------------------------------------------------------------------
(* run_makecert_authority and run_makecert_enduser: the keystroke schedule *)

\* What the responder did after its last window query, once the wait is over.
PopupAfterWait ==
    IF pr_pc \in {"keys", "done"}
        THEN SubSeq(pr_trace, QueryIndex(Len(PopupQueries)) + 1, Len(pr_trace))
        ELSE << >>

Args(sends) == [i \in 1..Len(sends) |-> sends[i].arg]

\* In a sequence of calls, the index of the sleep that follows the n-th ENTER.
EndOfDialog(calls, n) ==
    1 + CHOOSE i \in 1..Len(calls) :
            /\ calls[i] = SendKeys("{ENTER}")
            /\ Cardinality({h \in 1..i : calls[h] = SendKeys("{ENTER}")}) = n

\* C12: a responder that returns normally has sent exactly password, TAB,
\* password, TAB, ENTER, password, TAB, ENTER (authority flow, 8 sends), and the
\* same followed by password, TAB, ENTER (end-entity flow, 11 sends), with the
\* same password value in every password position.
C12_KeystrokeSchedule ==
    pr_pc = "done" =>
        LET first == << password, "{TAB}", password, "{TAB}", "{ENTER}" >>
            later == << password, "{TAB}", "{ENTER}" >>
        IN /\ pr_variant = "authority" => Args(PopupSends) = first \o later
           /\ pr_variant = "enduser" => Args(PopupSends) = first \o later \o later

C12_Witness ==
    /\ pr_pc = "done"
    /\ pr_variant = "enduser"
    /\ Len(PopupSends) = 11
    /\ PopupSends[9].arg = password

\* C13 as claimed: what run_makecert_enduser does up to the end of its second
\* screen is the complete sequence of run_makecert_authority (the wait loop is
\* the same code in both), and the end-entity flow only appends the third screen.
C13_EnduserExtendsAuthority ==
    LET a == run_makecert_authority_keys(password)
        e == run_makecert_enduser_keys(password)
    IN /\ (pr_pc = "done" /\ pr_variant = "enduser") =>
              SubSeq(PopupAfterWait, 1, EndOfDialog(PopupAfterWait, 2)) = a
       /\ (pr_pc = "done" /\ pr_variant = "authority") =>
              PopupAfterWait = SubSeq(e, 1, EndOfDialog(e, 2))

\* C13 as amended: run_makecert_authority sleeps 0.2 between the last window
\* query and the first keystroke and run_makecert_enduser does not; but for
\* that one sleep, what run_makecert_enduser does up to the end of its second
\* screen is the complete sequence of run_makecert_authority, and the
\* end-entity flow appends only the third screen: password, TAB, ENTER with
\* their sleeps.
C13_EnduserExtendsAuthorityButOneSleep ==
    LET a == run_makecert_authority_keys(password)
        e == run_makecert_enduser_keys(password)
    IN /\ (pr_pc = "done" /\ pr_variant = "enduser") =>
              LET n == EndOfDialog(PopupAfterWait, 2)
              IN /\ << sleep(2) >> \o SubSeq(PopupAfterWait, 1, n) = a
                 /\ SubSeq(PopupAfterWait, n + 1, Len(PopupAfterWait)) =
                        << SendKeys(password), sleep(2), SendKeys("{TAB}"), sleep(2),
                           SendKeys("{ENTER}"), sleep(5) >>
       /\ (pr_pc = "done" /\ pr_variant = "authority") =>
              PopupAfterWait = << sleep(2) >> \o SubSeq(e, 1, EndOfDialog(e, 2))

C13_Witness ==
    /\ pr_pc = "done"
    /\ pr_variant = "enduser"
    /\ PopupAfterWait[1] = SendKeys(password)
    /\ Len(PopupAfterWait) = 22

\* C14: every keystroke send is followed by a sleep before the next send or
\* the return: 0.2 after a password or TAB, 0.5 after an ENTER; so no two sends
\* are less than 0.2 apart.
C14_SettleDelays ==
    \A i \in 1..Len(pr_trace) :
        pr_trace[i].act = "SendKeys" =>
            /\ i = Len(pr_trace) => pr_pc = "keys"
            /\ i < Len(pr_trace) =>
                  /\ pr_trace[i + 1].act = "sleep"
                  /\ pr_trace[i + 1].dur =
                         IF pr_trace[i].arg = "{ENTER}" THEN 5 ELSE 2

C14_Witness ==
    /\ pr_pc = "done"
    /\ pr_variant = "authority"
    /\ Len(PopupSends) = 8
    /\ pr_trace[Len(pr_trace)] = sleep(5)

\* C15: once the first keystroke is sent no window query is made any more,
\* the schedule goes on to its end without asking the window manager, and the
\* responder returns normally with all its keystrokes sent.
C15_NoQueryAfterFirstKeystroke ==
    /\ \A i \in 1..Len(pr_trace) : \A j \in (i + 1)..Len(pr_trace) :
          pr_trace[i].act = "SendKeys" => pr_trace[j].act # "AppActivate"
    /\ PopupSends # << >> => pr_pc \in {"keys", "done"}
    /\ pr_pc = "keys" => ENABLED PopupKeys
    /\ pr_pc = "done" =>
          Len(PopupSends) = IF pr_variant = "authority" THEN 8 ELSE 11

C15_Witness ==
    /\ pr_pc = "done"
    /\ pr_variant = "enduser"
    /\ Len(PopupQueries) = 2
    /\ Len(PopupSends) = 11

\* C18: no keystroke is sent unless the last window query before it returned
\* true; a window query that succeeds in the wait loop is followed by exactly
\* one more, after the loop; and when that last query fails the responder
\* raises the timeout error with no keystroke sent, even if the window had been
\* seen in the loop.
C18_LastQueryDecides ==
    LET q == PopupQueries
    IN /\ PopupSends # << >> => (q # << >> /\ q[Len(q)].res)
       /\ \A k \in 1..(Len(q) - 1) : q[k].res => Len(q) = k + 1
       /\ (q # << >> /\ q[Len(q)].res /\ pr_pc \notin {"keys", "done"}) =>
             (pr_pc = "final" /\ ENABLED PopupFinal)
       /\ pr_pc \in {"keys", "done", "timeout"} =>
             /\ Len(q) >= 2
             /\ ~q[Len(q)].res => (pr_pc = "timeout" /\ PopupSends = << >>)

C18_Witness ==
    /\ pr_pc = "timeout"
    /\ Len(PopupQueries) = 5
    /\ PopupQueries[4].res
    /\ ~PopupQueries[5].res
    /\ PopupSends = << >>

----------------------------------------------------------------------------
(* make_ca and make_pfx: the order of the steps *)

\* C16: make_ca invokes certutil -addstore Root only after the responder has
\* returned normally and both output files were found to exist, and at most
\* once; when the responder times out or a file is missing, make_ca raises and
\* the add-to-store is never invoked.
C16_AddStoreOnlyAfterConfirm ==
    /\ (ca_calls # << >> \/ ca_pc = "addstore") =>
          /\ pr_pc = "done"
          /\ Len(ca_checks) = 2
          /\ \A i \in 1..2 : ca_checks[i].isfile
    /\ Len(ca_calls) <= 1
    /\ \A i \in 1..Len(ca_calls) :
          ca_calls[i].verb = "-addstore" /\ ca_calls[i].store = "Root"
    /\ pr_pc = "timeout" => (ca_calls = << >> /\ ca_checks = << >>)
    /\ (ca_pc = "popup" /\ pr_pc = "timeout") => ENABLED MakeCaPopupEnds
    /\ ca_pc \in {"raised_timeout", "raised_missing"} => ca_calls = << >>
    /\ ca_pc = "raised_timeout" <=> (pr_pc = "timeout" /\ ca_pc # "popup" /\ op = "make_ca")

C16_Witness ==
    /\ ca_pc = "raised_missing"
    /\ ca_err = "cer_filename"
    /\ pr_pc = "done"
    /\ ca_calls = << >>

Tools(calls) == [i \in 1..Len(calls) |-> calls[i].tool]

----------------------------------------------------------------------------
(* remove_cert_fromstore: a failed delete *)

\* C20: each delete is attempted once and never retried: when the delete of
\* the i-th extracted serial fails, the error propagates at once, the deletes
\* of serials 1..i-1 have succeeded and stay done, and serials i+1..n are never
\* attempted.
C20_FailedDeleteEndsTheLoop ==
    /\ Scanned =>
          /\ \A j \in 1..Len(CurrentDeletes) :
                /\ CurrentDeletes[j].arg = rm_snums[j]
                /\ CurrentDeletes[j].returncode # 0 =>
                      (j = Len(CurrentDeletes) /\ rm_pc = "raised_certutil" /\ rm_k = j)
          /\ Len(CurrentDeletes) <= Len(rm_snums)
          /\ rm_pc = "delete" => Len(CurrentDeletes) = rm_k - 1
    /\ RemoveCertRaised => ~ENABLED RemoveCertDelete

C20_Witness ==
    /\ rm_pc = "raised_certutil"
    /\ Len(rm_snums) = 2
    /\ Len(CurrentDeletes) = 1
    /\ CurrentDeletes[1].returncode # 0

----------------------------------------------------------------------------
(* run_makecert_authority and run_makecert_enduser: termination *)

PopupSleeps == SelectSeq(pr_trace, LAMBDA e : e.act = "sleep")

\* The sleeps of the wait loop: those before the keystroke schedule.
PollSleeps ==
    Len(PopupSleeps) - Len(SelectSeq(PopupAfterWait, LAMBDA e : e.act = "sleep"))

\* How far the call has come; it grows with every statement executed.
PopupProgress ==
    CASE pr_pc = "idle"      -> 0
      [] pr_pc = "call"      -> 1
      [] pr_pc = "poll"      -> 2 + 2 * pr_n
      [] pr_pc = "pollsleep" -> 3 + 2 * pr_n
      [] pr_pc = "final"     -> 2 + 2 * PollCount
      [] pr_pc = "keys"      -> 2 + 2 * PollCount + pr_k
      [] OTHER               -> 4 + 2 * PollCount + Len(popup_keys)

C19_Bounded ==
    /\ \A i \in 1..Len(pr_trace) :
          /\ pr_trace[i].act \in {"Run", "AppActivate", "sleep", "SendKeys"}
          /\ pr_trace[i].act = "Run" <=> i = 1
    /\ pr_pc \notin {"idle", "call"} => Launched
    /\ Len(PopupQueries) <= 21
    /\ PollSleeps <= 20
    /\ Len(PopupAfterWait) <= Len(popup_keys)
    /\ pr_pc = "done" => PopupAfterWait = popup_keys
    /\ pr_pc = "timeout" => Len(pr_trace) = 1 + Len(PopupQueries) + PollSleeps

C19_StepsOnce ==
    /\ PopupProgress' >= PopupProgress
    /\ prVars' # prVars => PopupProgress' > PopupProgress
    /\ PopupTerminated => UNCHANGED prVars
    /\ pr_pc \notin {"idle", "call"} => pr_variant' = pr_variant

\* C19: a call of the responder launches the process once and first, does
\* nothing but launch, query, sleep and send, makes at most 21 queries and 20
\* sleeps of the wait loop and then at most the keystroke schedule, never goes
\* back to an earlier statement, and ends in done or timeout, where it stays.
C19_TerminatesOnce ==
    /\ []C19_Bounded
    /\ [][C19_StepsOnce]_vars
    /\ (pr_pc = "call") ~> PopupTerminated

C19_Witness ==
    /\ pr_pc = "done"
    /\ pr_variant = "authority"
    /\ Len(PopupQueries) = 21
    /\ PollSleeps = 20
    /\ Len(pr_trace) = 1 + 21 + 20 + 17

====
